---- MODULE Spec2Model ----
(***************************************************************************)
(* Model of the ISO8859-10 (Latin-6) single-byte codec crate:              *)
(*   - char.rs : IsoLatin6Char, the byte <-> scalar conversions            *)
(*   - lib.rs  : IsoLatin6String, the owned growable buffer                *)
(* The codec is a family of pure functions; a behaviour of Spec is one     *)
(* chain of conversion calls, each applied to a fresh input or to the      *)
(* value the previous call returned.  A behaviour of SpecString is a       *)
(* sequence of calls on one IsoLatin6String.                               *)
(***************************************************************************)
EXTENDS Integers, Sequences, FiniteSets, TLC

VARIABLES
    calls,      \* codec: the chain of conversion calls made so far
    bytes,      \* buffer: contents of IsoLatin6String.bytes
    cap,        \* buffer: capacity of IsoLatin6String.bytes
    last        \* buffer: the last call made on the buffer and its outcome

vars == <<calls, bytes, cap, last>>

----------------------------------------------------------------------------
(* Bounds of the model                                                     *)

\* scalars 0 .. MaxLowScalar of every modelled plane are conversion inputs
MaxLowScalar == 767
\* supplementary planes 1 .. MaxPlane are sampled
MaxPlane == 1
\* longest byte vector handed to from_iso8859_10, the test vectors aside
MaxLen == 2
\* largest capacity argument / largest `additional`
MaxAdditional == 10
\* longest chain of conversion calls
MaxChain == 3

----------------------------------------------------------------------------
(* Values                                                                  *)

Bytes == 0..255

\* Result<T, IsoLatin6CharError>
Ok(v) == [kind |-> "Ok", val |-> v, err |-> "None"]
Err(e) == [kind |-> "Err", val |-> -1, err |-> e]

\* `char`: a Unicode scalar value, i.e. any code point but a surrogate
IsChar(s) == s \in 0..1114111 /\ ~(s \in 55296..57343)

\* char::from_u32
from_u32(c) == IF IsChar(c) THEN Ok(c) ELSE Err("Invalid")

----------------------------------------------------------------------------
(* Tables of the `map` module                                              *)

\* LAST_PART_OF_ISO8859: the scalars of the bytes 0xA0..=0xFF, the reference
\* table of the conversion tests
LAST_PART_OF_ISO8859 ==
    << 160, 260, 274, 290, 298, 296, 310, 167,
       315, 272, 352, 358, 381, 173, 362, 330,
       176, 261, 275, 291, 299, 297, 311, 183,
       316, 273, 353, 359, 382, 8213, 363, 331,
       256, 193, 194, 195, 196, 197, 198, 302,
       268, 201, 280, 203, 278, 205, 206, 207,
       208, 325, 332, 211, 212, 213, 214, 360,
       216, 370, 218, 219, 220, 221, 222, 223,
       257, 225, 226, 227, 228, 229, 230, 303,
       269, 233, 281, 235, 279, 237, 238, 239,
       240, 326, 333, 243, 244, 245, 246, 361,
       248, 371, 250, 251, 252, 253, 254, 312 >>

\* DECODE_MAP: the scalar of byte 0xA0 + i at offset i, 0 for "undefined";
\* ISO8859-10 defines all 96 (a 1-based sequence here: offset i is entry i + 1)
DECODE_MAP == [i \in 1..96 |-> LAST_PART_OF_ISO8859[i]]

\* the high bytes that own a page of ENCODE_MAP, in page order
PAGE_HI == << 0, 1, 32 >>

\* HI_MAP: high byte of the scalar -> page index; a high byte without a page
\* gets the index past the last page, so that its lookup is out of range
HI_MAP ==
    [hi \in 0..32 |->
        IF \E p \in 1..Len(PAGE_HI) : PAGE_HI[p] = hi
        THEN (CHOOSE p \in 1..Len(PAGE_HI) : PAGE_HI[p] = hi) - 1
        ELSE Len(PAGE_HI)]

\* ENCODE_MAP: the pages, flattened; entry page * 256 + lo holds the byte of
\* the scalar (hi, lo), or the sentinel 0
ENCODE_MAP ==
    [pos \in 0..(Len(PAGE_HI) * 256 - 1) |->
        LET scalar == PAGE_HI[(pos \div 256) + 1] * 256 + (pos % 256)
        IN  IF \E i \in 1..Len(DECODE_MAP) : DECODE_MAP[i] = scalar
            THEN 160 + (CHOOSE i \in 1..Len(DECODE_MAP) : DECODE_MAP[i] = scalar) - 1
            ELSE 0]

\* slice::get: Some(table[i]) or None; the tables above are 0-based functions
\* except DECODE_MAP, a 1-based sequence
InRange(table, i) == i \in DOMAIN table

----------------------------------------------------------------------------
(* Conversions of char.rs                                                  *)

\* try_from_u8 with the undefined range ending one byte early
try_from_u8_short_undefined(byte) ==
    IF byte \in 0..127 THEN Ok(byte)
    ELSE IF byte \in 128..158 THEN Err("Undefined")
    ELSE Ok(byte)

\* impl TryFrom<u8> for IsoLatin6Char
try_from_u8(byte) ==
    IF byte \in 0..127 THEN Ok(byte)
    ELSE IF byte \in 128..159 THEN Err("Undefined")
    ELSE Ok(byte)

\* impl From<IsoLatin6Char> for u8
u8_from(ch) == ch

\* map_byte_to_char with the undefined range reaching 0xA0
map_byte_to_char_undefined_through_a0(byte) ==
    IF byte \in 0..127 THEN Ok(byte)
    ELSE IF byte \in 128..160 THEN Err("Undefined")
    ELSE IF ~InRange(DECODE_MAP, byte - 160 + 1) THEN Err("Invalid")
    ELSE IF DECODE_MAP[byte - 160 + 1] = 0 THEN Err("Invalid")
    ELSE from_u32(DECODE_MAP[byte - 160 + 1])

\* fn map_byte_to_char
map_byte_to_char(byte) ==
    IF byte \in 0..127 THEN Ok(byte)
    ELSE IF byte \in 128..159 THEN Err("Undefined")
    ELSE IF ~InRange(DECODE_MAP, byte - 160 + 1) THEN Err("Invalid")
    ELSE IF DECODE_MAP[byte - 160 + 1] = 0 THEN Err("Invalid")
    ELSE from_u32(DECODE_MAP[byte - 160 + 1])

\* what an out-of-bounds read of the decode table can produce
OutOfBoundsRead == {Ok(0), Ok(65), Ok(65535), [kind |-> "Panic", val |-> -1, err |-> "None"]}

\* map_byte_to_char_unchecked reading one entry too far
map_byte_to_char_unchecked_shifted(byte) ==
    IF byte \in 0..127 THEN {Ok(byte)}
    ELSE IF InRange(DECODE_MAP, byte - 160 + 2) THEN {Ok(DECODE_MAP[byte - 160 + 2])}
    ELSE OutOfBoundsRead

\* unsafe fn map_byte_to_char_unchecked: the set of values the call can
\* produce.  For 0x80..=0x9F the index byte - 0xA0 underflows and the read is
\* out of bounds: any scalar, or a panic of the overflow check.
map_byte_to_char_unchecked(byte) ==
    IF byte \in 0..127 THEN {Ok(byte)}
    ELSE IF InRange(DECODE_MAP, byte - 160 + 1) THEN {Ok(DECODE_MAP[byte - 160 + 1])}
    ELSE OutOfBoundsRead

\* map_char_to_byte rejecting 0x80..=0xA0 instead of 0x80..=0x9F
map_char_to_byte_invalid_through_a0(ch) ==
    LET c == ch % 65536     \* ch as u32 as u16
    IN  IF c \in 0..127 THEN Ok(c)
        ELSE IF c \in 128..160 THEN Err("Invalid")
        ELSE LET hi == c \div 256
                 lo == c % 256
             IN  IF ~InRange(HI_MAP, hi) THEN Err("Invalid")
                 ELSE LET pos == HI_MAP[hi] * 256 + lo
                      IN  IF ~InRange(ENCODE_MAP, pos) THEN Err("Invalid")
                          ELSE IF ENCODE_MAP[pos] # 0 THEN Ok(ENCODE_MAP[pos])
                          ELSE Err("Invalid")

\* map_char_to_byte indexing ENCODE_MAP by the high byte, without HI_MAP
map_char_to_byte_no_page(ch) ==
    LET c == ch % 65536     \* ch as u32 as u16
    IN  IF c \in 0..127 THEN Ok(c)
        ELSE IF c \in 128..159 THEN Err("Invalid")
        ELSE LET hi == c \div 256
                 lo == c % 256
             IN  IF ~InRange(HI_MAP, hi) THEN Err("Invalid")
                 ELSE LET pos == hi * 256 + lo
                      IN  IF ~InRange(ENCODE_MAP, pos) THEN Err("Invalid")
                          ELSE IF ENCODE_MAP[pos] # 0 THEN Ok(ENCODE_MAP[pos])
                          ELSE Err("Invalid")

\* map_char_to_byte letting the scalars 0x80..=0x9F through as bytes
map_char_to_byte_c1_through(ch) ==
    LET c == ch % 65536     \* ch as u32 as u16
    IN  IF c \in 0..159 THEN Ok(c)
        ELSE LET hi == c \div 256
                 lo == c % 256
             IN  IF ~InRange(HI_MAP, hi) THEN Err("Invalid")
                 ELSE LET pos == HI_MAP[hi] * 256 + lo
                      IN  IF ~InRange(ENCODE_MAP, pos) THEN Err("Invalid")
                          ELSE IF ENCODE_MAP[pos] # 0 THEN Ok(ENCODE_MAP[pos])
                          ELSE Err("Invalid")

\* map_char_to_byte reporting 0x80..=0x9F with the error of the decoder
map_char_to_byte_undefined_kind(ch) ==
    LET c == ch % 65536     \* ch as u32 as u16
    IN  IF c \in 0..127 THEN Ok(c)
        ELSE IF c \in 128..159 THEN Err("Undefined")
        ELSE LET hi == c \div 256
                 lo == c % 256
             IN  IF ~InRange(HI_MAP, hi) THEN Err("Invalid")
                 ELSE LET pos == HI_MAP[hi] * 256 + lo
                      IN  IF ~InRange(ENCODE_MAP, pos) THEN Err("Invalid")
                          ELSE IF ENCODE_MAP[pos] # 0 THEN Ok(ENCODE_MAP[pos])
                          ELSE Err("Invalid")

\* fn map_char_to_byte
map_char_to_byte(ch) ==
    LET c == ch % 65536     \* ch as u32 as u16
    IN  IF c \in 0..127 THEN Ok(c)
        ELSE IF c \in 128..159 THEN Err("Invalid")
        ELSE LET hi == c \div 256
                 lo == c % 256
             IN  IF ~InRange(HI_MAP, hi) THEN Err("Invalid")
                 ELSE LET pos == HI_MAP[hi] * 256 + lo
                      IN  IF ~InRange(ENCODE_MAP, pos) THEN Err("Invalid")
                          ELSE IF ENCODE_MAP[pos] # 0 THEN Ok(ENCODE_MAP[pos])
                          ELSE Err("Invalid")

\* impl TryFrom<char> for IsoLatin6Char
try_from_char(ch) == map_char_to_byte(ch)

\* impl From<IsoLatin6Char> for char
char_from(ch) == map_byte_to_char_unchecked(ch)

----------------------------------------------------------------------------
(* The codec as a state machine: one chain of conversion calls             *)

\* the scalars handed to TryFrom<char>: the low part of the BMP and of the
\* sampled supplementary planes, the page of U+2015, and the edges of `char`
ScalarInputs ==
    (0..MaxLowScalar) \cup (8192..8447)
        \cup {8448, 55295, 57344, 65535, 1114111}
        \cup {p * 65536 + x : p \in 1..MaxPlane, x \in (0..MaxLowScalar) \cup {8213}}

Call(op, arg, res) == [op |-> op, arg |-> arg, res |-> res]

Held == calls[Len(calls)]

\* the last call returned an IsoLatin6Char
HoldsChar ==
    /\ calls # <<>>
    /\ Held.op \in {"try_from_u8", "try_from_char", "default"}
    /\ Held.res.kind = "Ok"

\* the last call returned a `char`
HoldsScalar ==
    /\ calls # <<>>
    /\ Held.op \in {"char_from", "map_byte_to_char"}
    /\ Held.res.kind = "Ok"

CodecInit == calls = <<>>

\* IsoLatin6Char::try_from(byte)
TryFromU8(byte) ==
    /\ calls = <<>>
    /\ calls' = <<Call("try_from_u8", byte, try_from_u8(byte))>>
    /\ UNCHANGED <<bytes, cap, last>>

\* map_byte_to_char(byte)
MapByteToChar(byte) ==
    /\ calls = <<>>
    /\ calls' = <<Call("map_byte_to_char", byte, map_byte_to_char(byte))>>
    /\ UNCHANGED <<bytes, cap, last>>

\* IsoLatin6Char::try_from(ch) on a fresh scalar
TryFromChar(ch) ==
    /\ calls = <<>>
    /\ calls' = <<Call("try_from_char", ch, try_from_char(ch))>>
    /\ UNCHANGED <<bytes, cap, last>>

\* IsoLatin6Char::default(): the derived Default of the wrapped u8
DefaultChar ==
    /\ calls = <<>>
    /\ calls' = <<Call("default", 0, Ok(0))>>
    /\ UNCHANGED <<bytes, cap, last>>

\* char::from(c) on the character the last call returned
CharFromSelf ==
    /\ HoldsChar
    /\ Len(calls) < MaxChain
    /\ \E r \in char_from(Held.res.val) :
          calls' = Append(calls, Call("char_from", Held.res.val, r))
    /\ UNCHANGED <<bytes, cap, last>>

\* u8::from(c) on the character the last call returned
U8FromSelf ==
    /\ HoldsChar
    /\ Len(calls) < MaxChain
    /\ calls' = Append(calls, Call("u8_from", Held.res.val, Ok(u8_from(Held.res.val))))
    /\ UNCHANGED <<bytes, cap, last>>

\* IsoLatin6Char::try_from(ch) on the scalar the last call returned
TryFromHeldChar ==
    /\ HoldsScalar
    /\ Len(calls) < MaxChain
    /\ calls' = Append(calls, Call("try_from_char", Held.res.val, try_from_char(Held.res.val)))
    /\ UNCHANGED <<bytes, cap, last>>

CodecNext ==
    \/ \E byte \in Bytes : TryFromU8(byte)
    \/ \E byte \in Bytes : MapByteToChar(byte)
    \/ \E ch \in ScalarInputs : TryFromChar(ch)
    \/ DefaultChar
    \/ CharFromSelf
    \/ U8FromSelf
    \/ TryFromHeldChar

----------------------------------------------------------------------------
(* IsoLatin6String (lib.rs): a Vec<u8> behind the validity invariant       *)

\* outcome of a constructor: a buffer, an error, or a panic
Built(b, c) == [kind |-> "Ok", bytes |-> b, cap |-> c]
Panicked == [kind |-> "Panic", bytes |-> <<>>, cap |-> 0]

\* IsoLatin6String::new
new == Built(<<>>, 0)

\* IsoLatin6String::with_capacity
with_capacity(capacity) == Built(<<>>, capacity)

\* from_iso8859_10 wrapping the vector without validating it
from_iso8859_10_unvalidated(vec) == Built(vec, Len(vec))

\* IsoLatin6String::from_iso8859_10: the body is todo!(), which panics
from_iso8859_10(vec) == Panicked

\* IsoLatin6String::into_bytes
into_bytes(b) == b

\* IsoLatin6String::capacity
capacity(c) == c

\* IsoLatin6String::reserve, i.e. Vec::reserve: nothing when the room
\* suffices, else amortized growth to max(2 * capacity, len + additional),
\* and at least 8 for one-byte elements
reserve(len, c, additional) ==
    IF additional > c - len
    THEN LET required == len + additional
             grown == IF c * 2 >= required THEN c * 2 ELSE required
         IN  IF grown >= 8 THEN grown ELSE 8
    ELSE c

\* reserve_exact growing the way reserve does
reserve_exact_amortized(len, c, additional) == reserve(len, c, additional)

\* IsoLatin6String::reserve_exact, i.e. Vec::reserve_exact: nothing when the
\* room suffices, else exactly len + additional
reserve_exact(len, c, additional) ==
    IF additional > c - len
    THEN len + additional
    ELSE c

\* the bytes the byte vectors are made of: letters, a control code, an
\* undefined byte (0x87) and an upper-half letter (0xC6)
ByteSamples == {1, 65, 66, 67, 68, 135, 198}

\* the vectors of the buffer tests
TestVecs == {<<65, 66, 67>>, <<65, 66, 1, 68>>, <<65, 66, 135, 68>>}

RECURSIVE VecsOfLen(_)
VecsOfLen(n) ==
    IF n = 0 THEN {<<>>}
    ELSE {Append(v, b) : v \in VecsOfLen(n - 1), b \in ByteSamples}

VecInputs == TestVecs \cup UNION {VecsOfLen(n) : n \in 0..MaxLen}

\* the record of a call on the buffer: its argument (a number or a vector),
\* the capacity before it, how it ended and what it returned
Done(op, n, vec, kind, ret) ==
    [op |-> op, n |-> n, vec |-> vec, before |-> cap, kind |-> kind, ret |-> ret]

\* the buffer was not consumed by into_bytes
Alive == last.op # "into_bytes"

StringInit ==
    /\ bytes = new.bytes
    /\ cap = new.cap
    /\ last = [op |-> "new", n |-> 0, vec |-> <<>>, before |-> 0, kind |-> "Ok", ret |-> <<>>]

\* a constructor's outcome replaces the buffer; a panic leaves the buffer as it was
New ==
    LET r == new
    IN  /\ last' = Done("new", 0, <<>>, r.kind, r.bytes)
        /\ IF r.kind = "Ok"
           THEN bytes' = r.bytes /\ cap' = r.cap
           ELSE UNCHANGED <<bytes, cap>>
        /\ UNCHANGED calls

WithCapacity(n) ==
    LET r == with_capacity(n)
    IN  /\ last' = Done("with_capacity", n, <<>>, r.kind, r.bytes)
        /\ IF r.kind = "Ok"
           THEN bytes' = r.bytes /\ cap' = r.cap
           ELSE UNCHANGED <<bytes, cap>>
        /\ UNCHANGED calls

FromIso8859_10(vec) ==
    LET r == from_iso8859_10(vec)
    IN  /\ last' = Done("from_iso8859_10", 0, vec, r.kind, r.bytes)
        /\ IF r.kind = "Ok"
           THEN bytes' = r.bytes /\ cap' = r.cap
           ELSE UNCHANGED <<bytes, cap>>
        /\ UNCHANGED calls

IntoBytes ==
    /\ Alive
    /\ last' = Done("into_bytes", 0, <<>>, "Ok", into_bytes(bytes))
    /\ UNCHANGED <<calls, bytes, cap>>

Capacity ==
    /\ Alive
    /\ last' = Done("capacity", capacity(cap), <<>>, "Ok", <<>>)
    /\ UNCHANGED <<calls, bytes, cap>>

Reserve(additional) ==
    /\ Alive
    /\ cap' = reserve(Len(bytes), cap, additional)
    /\ last' = Done("reserve", additional, <<>>, "Ok", <<>>)
    /\ UNCHANGED <<calls, bytes>>

ReserveExact(additional) ==
    /\ Alive
    /\ cap' = reserve_exact(Len(bytes), cap, additional)
    /\ last' = Done("reserve_exact", additional, <<>>, "Ok", <<>>)
    /\ UNCHANGED <<calls, bytes>>

StringNext ==
    \/ New
    \/ \E n \in 0..MaxAdditional : WithCapacity(n)
    \/ \E vec \in VecInputs : FromIso8859_10(vec)
    \/ IntoBytes
    \/ Capacity
    \/ \E n \in 0..MaxAdditional : Reserve(n)
    \/ \E n \in 0..MaxAdditional : ReserveExact(n)

----------------------------------------------------------------------------
(* Specifications                                                          *)

Init == CodecInit /\ StringInit

\* the codec: chains of conversion calls
Next == CodecNext

Spec == Init /\ [][Next]_vars

\* the buffer: calls on an IsoLatin6String
SpecString == Init /\ [][StringNext]_vars

----------------------------------------------------------------------------
(* Classification predicates of char.rs                                    *)

\* u8 arithmetic
wrapping_sub(a, b) == (a - b) % 256
saturating_add(a, b) == IF a + b > 255 THEN 255 ELSE a + b
\* byte | 0b10_0000
set_bit5(b) == IF (b \div 32) % 2 = 0 THEN b + 32 ELSE b

\* IsoLatin6Char::is_alphabetic
is_alphabetic(b) ==
    \/ b \in 65..90
    \/ b \in 97..122
    \/ b \in 161..166
    \/ b \in 168..172
    \/ b \in 174..175
    \/ b \in 177..182
    \/ b \in 184..188
    \/ b \in 190..255

\* is_control without the arm of 0x7F
is_control_no_del(b) == b \in 0..31

\* is_control with the range of the C0 codes ending one byte late
is_control_through_space(b) == b \in 0..32 \/ b = 127

\* IsoLatin6Char::is_control
is_control(b) == b \in 0..31 \/ b = 127

\* IsoLatin6Char::is_numeric
is_numeric(b) == b \in 48..57

\* is_alphanumeric without the digits
is_alphanumeric_letters_only(b) == is_alphabetic(b)

\* IsoLatin6Char::is_alphanumeric
is_alphanumeric(b) == is_alphabetic(b) \/ is_numeric(b)

\* IsoLatin6Char::is_whitespace
is_whitespace(b) == b \in {9, 10, 12, 13, 32, 160}

\* is_lowercase with the last range starting at 0xDF
is_lowercase_from_df(b) ==
    \/ b \in 97..122
    \/ b \in 177..182
    \/ b \in 184..188
    \/ b \in 190..191
    \/ b \in 223..255

\* IsoLatin6Char::is_lowercase
is_lowercase(b) ==
    \/ b \in 97..122
    \/ b \in 177..182
    \/ b \in 184..188
    \/ b \in 190..191
    \/ b \in 224..255

\* is_uppercase with the range 0xA8..=0xAC widened to start at 0xA7
is_uppercase_from_a7(b) ==
    \/ b \in 65..90
    \/ b \in 161..166
    \/ b \in 167..172
    \/ b \in 174..175
    \/ b \in 192..223

\* IsoLatin6Char::is_uppercase
is_uppercase(b) ==
    \/ b \in 65..90
    \/ b \in 161..166
    \/ b \in 168..172
    \/ b \in 174..175
    \/ b \in 192..223

\* IsoLatin6Char::is_ascii
is_ascii(b) == b <= 127

\* outcome of a call that returns a bool or panics
Panic == [kind |-> "Panic", val |-> FALSE, err |-> "None"]
Returned(v) == [kind |-> "Ok", val |-> v, err |-> "None"]

\* is_digit adding 10 with wrap-around instead of saturation
is_digit_wrapping_add(b, radix) ==
    LET digit == wrapping_sub(b, 48)
    IN  IF radix > 10
        THEN IF ~(radix <= 36) THEN Panic
             ELSE IF digit < 10 THEN Returned(TRUE)
             ELSE Returned((wrapping_sub(set_bit5(b), 97) + 10) % 256 < radix)
        ELSE Returned(digit < radix)

\* is_digit returning on a decimal digit before the radix is checked
is_digit_late_assert(b, radix) ==
    LET digit == wrapping_sub(b, 48)
    IN  IF radix > 10
        THEN IF digit < 10 THEN Returned(TRUE)
             ELSE IF ~(radix <= 36) THEN Panic
             ELSE Returned(saturating_add(wrapping_sub(set_bit5(b), 97), 10) < radix)
        ELSE Returned(digit < radix)

\* is_digit without the early return on a decimal digit
is_digit_no_early_return(b, radix) ==
    LET digit == wrapping_sub(b, 48)
    IN  IF radix > 10
        THEN IF ~(radix <= 36) THEN Panic
             ELSE Returned(saturating_add(wrapping_sub(set_bit5(b), 97), 10) < radix)
        ELSE Returned(digit < radix)

\* IsoLatin6Char::is_digit
is_digit(b, radix) ==
    LET digit == wrapping_sub(b, 48)
    IN  IF radix > 10
        THEN IF ~(radix <= 36) THEN Panic
             ELSE IF digit < 10 THEN Returned(TRUE)
             ELSE Returned(saturating_add(wrapping_sub(set_bit5(b), 97), 10) < radix)
        ELSE Returned(digit < radix)

----------------------------------------------------------------------------
(* The predicates as a state machine: a character is built the way the     *)
(* unit tests build it, IsoLatin6Char(byte), and predicates are called on  *)
(* it one after the other                                                  *)

\* the radices handed to is_digit are 0 .. MaxRadix
MaxRadix == 37

PredicateOps ==
    {"is_alphabetic", "is_control", "is_numeric", "is_alphanumeric", "is_whitespace",
     "is_lowercase", "is_uppercase", "is_ascii", "is_digit"}

\* the character the predicates are called on is still held after a call;
\* the chain ends with is_digit
HoldsTestedChar ==
    /\ calls # <<>>
    /\ Held.op \in {"wrap"} \cup (PredicateOps \ {"is_digit"})
    /\ Len(calls) < MaxChain

TestedChar == Held.arg

\* IsoLatin6Char(byte), the tuple constructor
Wrap(byte) ==
    /\ calls = <<>>
    /\ calls' = <<[op |-> "wrap", arg |-> byte, radix |-> 0, res |-> Returned(TRUE)]>>
    /\ UNCHANGED <<bytes, cap, last>>

Tested(op, r) == [op |-> op, arg |-> TestedChar, radix |-> 0, res |-> Returned(r)]

IsAlphabetic ==
    /\ HoldsTestedChar
    /\ calls' = Append(calls, Tested("is_alphabetic", is_alphabetic(TestedChar)))
    /\ UNCHANGED <<bytes, cap, last>>

IsControl ==
    /\ HoldsTestedChar
    /\ calls' = Append(calls, Tested("is_control", is_control(TestedChar)))
    /\ UNCHANGED <<bytes, cap, last>>

IsNumeric ==
    /\ HoldsTestedChar
    /\ calls' = Append(calls, Tested("is_numeric", is_numeric(TestedChar)))
    /\ UNCHANGED <<bytes, cap, last>>

IsAlphanumeric ==
    /\ HoldsTestedChar
    /\ calls' = Append(calls, Tested("is_alphanumeric", is_alphanumeric(TestedChar)))
    /\ UNCHANGED <<bytes, cap, last>>

IsWhitespace ==
    /\ HoldsTestedChar
    /\ calls' = Append(calls, Tested("is_whitespace", is_whitespace(TestedChar)))
    /\ UNCHANGED <<bytes, cap, last>>

IsLowercase ==
    /\ HoldsTestedChar
    /\ calls' = Append(calls, Tested("is_lowercase", is_lowercase(TestedChar)))
    /\ UNCHANGED <<bytes, cap, last>>

IsUppercase ==
    /\ HoldsTestedChar
    /\ calls' = Append(calls, Tested("is_uppercase", is_uppercase(TestedChar)))
    /\ UNCHANGED <<bytes, cap, last>>

IsAscii ==
    /\ HoldsTestedChar
    /\ calls' = Append(calls, Tested("is_ascii", is_ascii(TestedChar)))
    /\ UNCHANGED <<bytes, cap, last>>

\* is_digit(radix), called on a character no predicate was called on yet
IsDigit(radix) ==
    /\ HoldsTestedChar
    /\ Held.op = "wrap"
    /\ calls' = Append(calls, [op |-> "is_digit", arg |-> TestedChar, radix |-> radix,
                               res |-> is_digit(TestedChar, radix)])
    /\ UNCHANGED <<bytes, cap, last>>

ClassNext ==
    \/ \E byte \in Bytes : Wrap(byte)
    \/ IsAlphabetic
    \/ IsControl
    \/ IsNumeric
    \/ IsAlphanumeric
    \/ IsWhitespace
    \/ IsLowercase
    \/ IsUppercase
    \/ IsAscii
    \/ \E radix \in 0..MaxRadix : IsDigit(radix)

\* the predicates: calls on one IsoLatin6Char
SpecClass == Init /\ [][ClassNext]_vars

\* is_digit(radix) called a second time on the character, after a first call
\* that returned
IsDigitAgain(radix) ==
    /\ calls # <<>>
    /\ Len(calls) < MaxChain
    /\ Held.op = "is_digit"
    /\ Held.res.kind = "Ok"
    /\ calls[Len(calls) - 1].op = "wrap"
    /\ calls' = Append(calls, [op |-> "is_digit", arg |-> TestedChar, radix |-> radix,
                               res |-> is_digit(TestedChar, radix)])
    /\ UNCHANGED <<bytes, cap, last>>

DigitNext ==
    \/ \E byte \in Bytes : Wrap(byte)
    \/ \E radix \in 0..MaxRadix : IsDigit(radix)
    \/ \E radix \in 0..MaxRadix : IsDigitAgain(radix)

\* is_digit: up to two calls on one IsoLatin6Char
SpecDigit == Init /\ [][DigitNext]_vars

----------------------------------------------------------------------------
(* Formatting: Display and Debug of IsoLatin6Char (char.rs) and of the     *)
(* borrowed view IsoLatin6Str (str.rs).  The text written to the sink is a *)
(* sequence of scalars; the sink is a String, whose writes do not fail.    *)

\* char::from(u8), what `self.0.into()` calls: the scalar U+0000..=U+00FF
\* whose code point is the value of the byte
u8_into_char(b) == b

\* the lowercase hexadecimal digits of n, without leading zeros
RECURSIVE hex_digits(_)
hex_digits(n) ==
    LET d == n % 16
        c == IF d < 10 THEN 48 + d ELSE 87 + d
    IN  IF n < 16 THEN <<c>> ELSE Append(hex_digits(n \div 16), c)

\* char::escape_debug as Debug for char applies it, on the scalars below
\* U+0100: named escapes, the scalar itself when printable, \u{..} otherwise
escape_debug(c) ==
    IF c = 0 THEN <<92, 48>>
    ELSE IF c = 9 THEN <<92, 116>>
    ELSE IF c = 13 THEN <<92, 114>>
    ELSE IF c = 10 THEN <<92, 110>>
    ELSE IF c = 92 THEN <<92, 92>>
    ELSE IF c = 39 THEN <<92, 39>>
    ELSE IF c \in 32..126 \/ (c \in 161..255 /\ c # 173) THEN <<c>>
    ELSE <<92, 117, 123>> \o hex_digits(c) \o <<125>>

\* impl fmt::Display for IsoLatin6Char, asked for with "{}"
display_char(b) == <<u8_into_char(b)>>

\* impl fmt::Debug for IsoLatin6Char, asked for with "{:?}"
debug_char(b) == <<39>> \o escape_debug(u8_into_char(b)) \o <<39>>

\* Option<usize>, the width of the formatter
NoWidth == [some |-> FALSE, val |-> 0]
Width(w) == [some |-> TRUE, val |-> w]
unwrap_or(o, d) == IF o.some THEN o.val ELSE d

saturating_sub(a, b) == IF a >= b THEN a - b ELSE 0

\* the digits a-f of a hexadecimal text as A-F
to_upper_hex(digits) ==
    [i \in 1..Len(digits) |-> IF digits[i] >= 97 THEN digits[i] - 32 ELSE digits[i]]

\* Formatter::pad_integral for a number that is not negative, without the
\* flag '#': the digits as they are when no width is given or the width is
\* reached, zeros in front under the flag '0', else spaces in front (numbers
\* are aligned to the end when the format string names no alignment)
pad_integral(digits, width, zero) ==
    LET pads == saturating_sub(unwrap_or(width, 0), Len(digits))
    IN  [i \in 1..pads |-> IF zero THEN 48 ELSE 32] \o digits

\* LowerHex writing the digits of the decoded scalar
lower_hex_of_scalar(b, width, zero) ==
    pad_integral(hex_digits((CHOOSE r \in map_byte_to_char_unchecked(b) : TRUE).val), width, zero)

\* impl fmt::LowerHex for IsoLatin6Char: LowerHex of the wrapped u8
lower_hex(b, width, zero) == pad_integral(hex_digits(b), width, zero)

\* impl fmt::UpperHex for IsoLatin6Char: UpperHex of the wrapped u8
upper_hex(b, width, zero) == pad_integral(to_upper_hex(hex_digits(b)), width, zero)

\* fn write of Display::fmt: every character through its own Display
RECURSIVE write(_)
write(view) ==
    IF view = <<>> THEN <<>> ELSE display_char(Head(view)) \o write(Tail(view))

\* fn write_pads of Display::fmt: the fill character, num times
write_pads(fill, num) == [i \in 1..num |-> fill]

\* Display::fmt of the view putting the odd pad of a centred text in front
display_str_odd_pad_first(view, fill, align, width) ==
    LET will_write == Len(view)
        remaining_pads == saturating_sub(unwrap_or(width, 0), will_write)
        half == remaining_pads \div 2
    IN  IF align = "Left" THEN write(view) \o write_pads(fill, remaining_pads)
        ELSE IF align = "Right" THEN write_pads(fill, remaining_pads) \o write(view)
        ELSE IF align = "Center"
        THEN write_pads(fill, IF remaining_pads % 2 = 0 THEN half ELSE half + 1)
                 \o write(view) \o write_pads(fill, half)
        ELSE write(view)

\* Display::fmt of the view cutting the text at the width
display_str_truncating(view, fill, align, width) ==
    LET will_write == IF width.some /\ width.val < Len(view) THEN width.val ELSE Len(view)
        text == SubSeq(write(view), 1, will_write)
        remaining_pads == saturating_sub(unwrap_or(width, 0), will_write)
        half == remaining_pads \div 2
    IN  IF align = "Left" THEN text \o write_pads(fill, remaining_pads)
        ELSE IF align = "Right" THEN write_pads(fill, remaining_pads) \o text
        ELSE IF align = "Center"
        THEN write_pads(fill, half) \o text
                 \o write_pads(fill, IF remaining_pads % 2 = 0 THEN half ELSE half + 1)
        ELSE text

\* impl fmt::Display for IsoLatin6Str; align is f.align(), "None" when the
\* format string names no alignment
display_str(view, fill, align, width) ==
    LET will_write == Len(view)
        remaining_pads == saturating_sub(unwrap_or(width, 0), will_write)
        half == remaining_pads \div 2
    IN  IF align = "Left" THEN write(view) \o write_pads(fill, remaining_pads)
        ELSE IF align = "Right" THEN write_pads(fill, remaining_pads) \o write(view)
        ELSE IF align = "Center"
        THEN write_pads(fill, half) \o write(view)
                 \o write_pads(fill, IF remaining_pads % 2 = 0 THEN half ELSE half + 1)
        ELSE write(view)

\* impl fmt::Debug for IsoLatin6Str: the Display text of a fresh formatter
\* between two double quotes
debug_str(view) == <<34>> \o display_str(view, 32, "None", NoWidth) \o <<34>>

----------------------------------------------------------------------------
(* Formatting as a state machine: one formatting call on a view or on a    *)
(* character                                                               *)

\* longest view that is formatted
MaxViewLen == 3
\* largest width asked of the formatter
MaxWidth == 5

\* the bytes a character can hold
ValidBytes == {b \in Bytes : try_from_u8(b).kind = "Ok"}

\* the bytes the views are made of: 'A', 'B', 0xA1 and 0xC6
ViewBytes == {65, 66, 161, 198}

RECURSIVE ViewsOfLen(_)
ViewsOfLen(n) ==
    IF n = 0 THEN {<<>>}
    ELSE {Append(v, b) : v \in ViewsOfLen(n - 1), b \in ViewBytes}

Views == UNION {ViewsOfLen(n) : n \in 0..MaxViewLen}

\* the formatter settings a format string can ask for
Fills == {32, 42}
Alignments == {"None", "Left", "Right", "Center"}
Widths == {NoWidth} \cup {Width(w) : w \in 0..MaxWidth}

Formatted(op, arg, fill, align, width, res) ==
    [op |-> op, arg |-> arg, fill |-> fill, align |-> align, width |-> width, res |-> res]

\* Display of a view under the given formatter settings
DisplayStr(view, fill, align, width) ==
    /\ calls = <<>>
    /\ calls' = <<Formatted("display_str", view, fill, align, width,
                            display_str(view, fill, align, width))>>
    /\ UNCHANGED <<bytes, cap, last>>

\* Debug of a view, "{:?}"
DebugStr(view) ==
    /\ calls = <<>>
    /\ calls' = <<Formatted("debug_str", view, 32, "None", NoWidth, debug_str(view))>>
    /\ UNCHANGED <<bytes, cap, last>>

\* Display of a character, "{}"
DisplayChar(b) ==
    /\ calls = <<>>
    /\ calls' = <<Formatted("display_char", b, 32, "None", NoWidth, display_char(b))>>
    /\ UNCHANGED <<bytes, cap, last>>

\* Debug of a character, "{:?}"
DebugChar(b) ==
    /\ calls = <<>>
    /\ calls' = <<Formatted("debug_char", b, 32, "None", NoWidth, debug_char(b))>>
    /\ UNCHANGED <<bytes, cap, last>>

FmtNext ==
    \/ \E view \in Views, fill \in Fills, align \in Alignments, width \in Widths :
          DisplayStr(view, fill, align, width)
    \/ \E view \in Views : DebugStr(view)
    \/ \E b \in ValidBytes : DisplayChar(b)
    \/ \E b \in ValidBytes : DebugChar(b)

\* formatting: one call of Display or Debug
SpecFmt == Init /\ [][FmtNext]_vars

----------------------------------------------------------------------------
(* Hexadecimal formatting as a state machine: one call of LowerHex or      *)
(* UpperHex on a character built the way the unit tests build it,          *)
(* IsoLatin6Char(byte)                                                     *)

\* a hexadecimal formatting call: the formatter has a width or none, and the
\* flag '0' or not
FormattedHex(op, arg, width, zero, res) ==
    [op |-> op, arg |-> arg, fill |-> 32, align |-> "None", width |-> width,
     zero |-> zero, res |-> res]

\* LowerHex of a character, "{:x}", "{:5x}", "{:02x}"
LowerHex ==
    /\ calls = <<>>
    /\ \E b \in Bytes, width \in Widths, zero \in BOOLEAN :
          calls' = <<FormattedHex("lower_hex", b, width, zero, lower_hex(b, width, zero))>>
    /\ UNCHANGED <<bytes, cap, last>>

\* UpperHex of a character, "{:X}", "{:5X}", "{:02X}"
UpperHex ==
    /\ calls = <<>>
    /\ \E b \in Bytes, width \in Widths, zero \in BOOLEAN :
          calls' = <<FormattedHex("upper_hex", b, width, zero, upper_hex(b, width, zero))>>
    /\ UNCHANGED <<bytes, cap, last>>

HexNext ==
    \/ LowerHex
    \/ UpperHex

\* hexadecimal formatting: one call of LowerHex or UpperHex
SpecHex == Init /\ [][HexNext]_vars

----------------------------------------------------------------------------
(* Checked sub-slicing of the borrowed view IsoLatin6Str (str.rs)          *)

\* Option<&IsoLatin6Str>
NoView == [some |-> FALSE, val |-> <<>>]
SomeView(v) == [some |-> TRUE, val |-> v]

\* <[u8]>::get with the range start..end, which get and get_mut call: None
\* when the range is inverted or ends past the slice, else the bytes
\* start .. end - 1 (0-based) of the slice
slice_get(view, start, end) ==
    IF start > end \/ end > Len(view) THEN NoView
    ELSE SomeView(SubSeq(view, start + 1, end))

\* get refusing a range that ends at the end of the view
get_end_in_bounds(view, start, end) ==
    IF end >= Len(view) THEN NoView ELSE slice_get(view, start, end)

\* IsoLatin6Str::get: the sub-slice, transmuted to a view
get(view, start, end) == slice_get(view, start, end)

\* IsoLatin6Str::get_mut: the mutable sub-slice, transmuted to a view
get_mut(view, start, end) == slice_get(view, start, end)

\* the range bounds handed to get and get_mut reach one past the longest view
Indexes == 0..(MaxViewLen + 1)

\* the record of a sub-slicing call: the view before and after it, the range
\* and what was returned
Sliced(op, view, start, end, res, after) ==
    [op |-> op, arg |-> view, start |-> start, end |-> end, res |-> res, after |-> after]

\* v.get(start..end); the view is borrowed shared and nothing is written
Get ==
    /\ calls = <<>>
    /\ \E view \in Views, start \in Indexes, end \in Indexes :
          calls' = <<Sliced("get", view, start, end, get(view, start, end), view)>>
    /\ UNCHANGED <<bytes, cap, last>>

\* v.get_mut(start..end); the call itself writes nothing through the borrow
GetMut ==
    /\ calls = <<>>
    /\ \E view \in Views, start \in Indexes, end \in Indexes :
          calls' = <<Sliced("get_mut", view, start, end, get_mut(view, start, end), view)>>
    /\ UNCHANGED <<bytes, cap, last>>

ViewNext ==
    \/ Get
    \/ GetMut

\* sub-slicing: one call of get or get_mut on a view
SpecView == Init /\ [][ViewNext]_vars

----------------------------------------------------------------------------
(* Properties of the codec, checked under Spec                             *)

CallIdx == 1..Len(calls)

\* the byte of the reference table's scalar s, when s is one of the 96
IsTableScalar(s) == \E k \in 1..Len(LAST_PART_OF_ISO8859) : LAST_PART_OF_ISO8859[k] = s

\* C1: round trip byte -> scalar -> byte.  Whenever try_from(b) accepts the
\* byte b as the character c, char::from(c) returns a scalar, encoding that
\* scalar returns Ok(c), and u8::from(c) is b.
C1_RoundTrip ==
    /\ \A i \in CallIdx :
          (i >= 2 /\ calls[i - 1].op = "try_from_u8" /\ calls[i].op = "char_from")
              => calls[i].res.kind = "Ok"
    /\ \A i \in CallIdx :
          (i >= 3 /\ calls[i - 2].op = "try_from_u8" /\ calls[i - 1].op = "char_from"
                  /\ calls[i].op = "try_from_char")
              => calls[i].res = Ok(calls[i - 2].arg)
    /\ \A i \in CallIdx :
          (i >= 2 /\ calls[i - 1].op = "try_from_u8" /\ calls[i].op = "u8_from")
              => calls[i].res = Ok(calls[i - 1].arg)

\* the round trip of 0xA1: decoded to U+0104, encoded back to 0xA1
C1_Witness ==
    /\ Len(calls) >= 3
    /\ calls[1] = Call("try_from_u8", 161, Ok(161))
    /\ calls[2] = Call("char_from", 161, Ok(260))
    /\ calls[3] = Call("try_from_char", 260, Ok(161))

\* C2: decoding a byte, by try_from(u8) or by map_byte_to_char, fails with
\* Undefined for every byte of 0x80..=0x9F and succeeds for every other byte.
C2_DecodeUndefined ==
    \A i \in CallIdx :
        calls[i].op \in {"try_from_u8", "map_byte_to_char"}
            => IF calls[i].arg \in 128..159
               THEN calls[i].res = Err("Undefined")
               ELSE calls[i].res.kind = "Ok"

\* 0x9F, the last undefined byte, was rejected by try_from(u8)
C2_Witness ==
    /\ calls # <<>>
    /\ calls[1] = Call("try_from_u8", 159, Err("Undefined"))

\* C3: char::from(c) is the byte's own value for the bytes 0x00..=0x7F and
\* entry b - 0xA0 of the reference table for the bytes b of 0xA0..=0xFF.
C3_DecodeReference ==
    \A i \in CallIdx :
        calls[i].op = "char_from"
            => /\ calls[i].arg \in 0..127 => calls[i].res = Ok(calls[i].arg)
               /\ calls[i].arg \in 160..255
                     => calls[i].res = Ok(LAST_PART_OF_ISO8859[calls[i].arg - 160 + 1])

\* 0xFF was decoded to U+0138
C3_Witness ==
    /\ Len(calls) >= 2
    /\ calls[2] = Call("char_from", 255, Ok(312))

\* C4: try_from(char) returns the byte equal to the scalar for the scalars
\* 0x00..=0x7F, and the byte 0xA0 + i for the i-th scalar of the reference
\* table.
C4_EncodeReference ==
    \A i \in CallIdx :
        calls[i].op = "try_from_char"
            => /\ calls[i].arg \in 0..127 => calls[i].res = Ok(calls[i].arg)
               /\ \A k \in 1..Len(LAST_PART_OF_ISO8859) :
                     calls[i].arg = LAST_PART_OF_ISO8859[k]
                         => calls[i].res = Ok(160 + k - 1)

\* U+2015, the one scalar of the page 0x20, was encoded to 0xBD
C4_Witness ==
    /\ calls # <<>>
    /\ calls[1] = Call("try_from_char", 8213, Ok(189))

\* C5: try_from(char) of a scalar of 0x80..=0x9F fails with Invalid.
C5_EncodeC1Invalid ==
    \A i \in CallIdx :
        (calls[i].op = "try_from_char" /\ calls[i].arg \in 128..159)
            => calls[i].res = Err("Invalid")

\* U+0087 was rejected as Invalid
C5_Witness ==
    /\ calls # <<>>
    /\ calls[1] = Call("try_from_char", 135, Err("Invalid"))

\* C6: try_from(char) of a scalar that is neither in 0x00..=0x7F nor one of
\* the 96 scalars of the table fails with Invalid, the scalars above 0xFFFF
\* included.
C6_EncodeUnmappedInvalid ==
    \A i \in CallIdx :
        (calls[i].op = "try_from_char" /\ ~(calls[i].arg \in 0..127)
                /\ ~IsTableScalar(calls[i].arg))
            => calls[i].res = Err("Invalid")

----------------------------------------------------------------------------
(* Properties of the buffer, checked under SpecString                      *)

\* C7: from_iso8859_10 of [0x41, 0x42, 0x43] succeeds, the buffer has capacity
\* 3 and holds those bytes, and into_bytes returns them.
C7_FromBytesABC ==
    (last.op = "from_iso8859_10" /\ last.vec = <<65, 66, 67>>)
        => /\ last.kind = "Ok"
           /\ bytes = <<65, 66, 67>>
           /\ cap = 3
           /\ into_bytes(bytes) = <<65, 66, 67>>

\* every byte of the vector decodes
AllDecode(vec) == \A i \in 1..Len(vec) : try_from_u8(vec[i]).kind = "Ok"

\* C8: from_iso8859_10 returns Ok, holding exactly the input bytes, if and
\* only if every input byte decodes, and an error otherwise.
C8_AllOrNothing ==
    last.op = "from_iso8859_10"
        => IF AllDecode(last.vec)
           THEN last.kind = "Ok" /\ bytes = last.vec
           ELSE last.kind = "Err"

----------------------------------------------------------------------------
(* Properties of formatting, checked under SpecFmt                         *)

\* the scalar the byte b of a character stands for in ISO8859-10
ScalarOf(b) == (CHOOSE r \in char_from(b) : TRUE).val

\* the scalars the bytes of a view stand for, in order
ScalarsOf(view) == [i \in 1..Len(view) |-> ScalarOf(view[i])]

\* the formatting call made, if any
FmtCall == calls[1]

IsDisplayStr == calls # <<>> /\ FmtCall.op = "display_str"

\* C11: Display of a view of n bytes under a width w > n writes w characters,
\* whatever the alignment asked for, none given included.
C11_WidthReached ==
    (IsDisplayStr /\ FmtCall.width.some /\ FmtCall.width.val > Len(FmtCall.arg))
        => Len(FmtCall.res) = FmtCall.width.val

\* the fills of a padded text
Fill(c, n) == [i \in 1..n |-> c]

\* C12: with p = w - n > 0 fills, Display of a view writes the content then p
\* fills for the start alignment, p fills then the content for the end
\* alignment, and floor(p/2) fills, the content, ceil(p/2) fills for the
\* centre alignment; the content is what the characters' own Display writes,
\* contiguous and in order.
C12_PaddingPlacement ==
    (IsDisplayStr /\ FmtCall.width.some /\ FmtCall.width.val > Len(FmtCall.arg))
        => LET c == FmtCall
               p == c.width.val - Len(c.arg)
               content == [i \in 1..Len(c.arg) |-> display_char(c.arg[i])[1]]
           IN  /\ c.align = "Left" => c.res = content \o Fill(c.fill, p)
               /\ c.align = "Right" => c.res = Fill(c.fill, p) \o content
               /\ c.align = "Center"
                     => c.res = Fill(c.fill, p \div 2) \o content
                                    \o Fill(c.fill, p - (p \div 2))

\* "AB" centred in a width of 5 with the fill '*': one fill, AB, two fills
C12_Witness ==
    /\ IsDisplayStr
    /\ FmtCall.arg = <<65, 66>>
    /\ FmtCall.align = "Center"
    /\ FmtCall.width = Width(5)
    /\ FmtCall.res = <<42, 65, 66, 42, 42>>

\* C13: when the view has at least as many characters as the width asks for,
\* Display writes exactly the characters of the view: no fill, nothing cut.
C13_NoTruncation ==
    (IsDisplayStr /\ FmtCall.width.some /\ Len(FmtCall.arg) >= FmtCall.width.val)
        => FmtCall.res = [i \in 1..Len(FmtCall.arg) |-> display_char(FmtCall.arg[i])[1]]

\* a view of three characters was written whole under a width of 2
C13_Witness ==
    /\ IsDisplayStr
    /\ FmtCall.arg = <<65, 66, 198>>
    /\ FmtCall.align = "Right"
    /\ FmtCall.width = Width(2)
    /\ FmtCall.res = <<65, 66, 198>>

\* C14: without padding, Display of a view writes the ISO8859-10 scalar of
\* every byte, in order, and Debug writes that text between double quotes.
C14_UnpaddedRendering ==
    /\ (IsDisplayStr /\ FmtCall.align = "None")
          => FmtCall.res = ScalarsOf(FmtCall.arg)
    /\ (calls # <<>> /\ FmtCall.op = "debug_str")
          => FmtCall.res = <<34>> \o ScalarsOf(FmtCall.arg) \o <<34>>

\* C15: Display of a character writes the one scalar char::from gives for it,
\* and Debug writes that scalar between single quotes.
C15_CharRendering ==
    /\ (calls # <<>> /\ FmtCall.op = "display_char")
          => FmtCall.res = <<ScalarOf(FmtCall.arg)>>
    /\ (calls # <<>> /\ FmtCall.op = "debug_char")
          => FmtCall.res = <<39, ScalarOf(FmtCall.arg), 39>>

----------------------------------------------------------------------------
(* Properties of the predicates, checked under SpecClass                   *)

C18_CaseDisjoint ==
    \A i, j \in CallIdx :
        (calls[i].op = "is_lowercase" /\ calls[j].op = "is_uppercase")
            => ~(calls[i].res.val /\ calls[j].res.val)

\* both case predicates were called on 0xDF, the last uppercase byte
C18_Witness ==
    \E i, j \in CallIdx :
        /\ calls[i].op = "is_lowercase" /\ calls[i].arg = 223 /\ calls[i].res.val = FALSE
        /\ calls[j].op = "is_uppercase" /\ calls[j].arg = 223 /\ calls[j].res.val = TRUE

\* the bytes that are no letters: 0x80..=0xA0, the digits, the control codes
\* and the symbols 0xA7, 0xAD, 0xB0, 0xB7, 0xBD
NonLetters ==
    (128..160) \cup (48..57) \cup (0..31) \cup {127} \cup {167, 173, 176, 183, 189}

\* C19: a byte that is uppercase or lowercase is alphabetic, and no byte of
\* NonLetters is alphabetic.
C19_AlphabeticContainsCase ==
    /\ \A i, j \in CallIdx :
          (calls[i].op \in {"is_lowercase", "is_uppercase"} /\ calls[i].res.val
                /\ calls[j].op = "is_alphabetic")
              => calls[j].res.val
    /\ \A i \in CallIdx :
          (calls[i].op = "is_alphabetic" /\ calls[i].arg \in NonLetters)
              => ~calls[i].res.val

\* 0xAC was found uppercase and alphabetic
C19_Witness ==
    \E i, j \in CallIdx :
        /\ calls[i].op = "is_uppercase" /\ calls[i].arg = 172 /\ calls[i].res.val
        /\ calls[j].op = "is_alphabetic" /\ calls[j].res.val

\* the value of the byte as a digit: 0-9, then a-z and A-Z from 10; 36 for
\* every other byte
DigitValue(b) ==
    IF b \in 48..57 THEN b - 48
    ELSE IF b \in 97..122 THEN 10 + (b - 97)
    ELSE IF b \in 65..90 THEN 10 + (b - 65)
    ELSE 36

\* C20: for every byte b and every radix r of 0..=36, is_digit(b, r) returns
\* true exactly when b is a digit or a letter whose value is below r.
C20_IsDigitExact ==
    \A i \in CallIdx :
        (calls[i].op = "is_digit" /\ calls[i].radix <= 36)
            => calls[i].res = Returned(DigitValue(calls[i].arg) < calls[i].radix)

\* is_digit(36) was called on '`', the byte before 'a', and did not hold
C20_Witness ==
    \E i \in CallIdx :
        /\ calls[i].op = "is_digit"
        /\ calls[i].arg = 96
        /\ calls[i].radix = 36
        /\ calls[i].res = Returned(FALSE)

----------------------------------------------------------------------------
(* Properties of is_digit, checked under SpecDigit and SpecClass           *)

\* C21: is_digit is monotonic in the radix.  When is_digit(r) returned true
\* for a character, is_digit(r') on the same character returns true for
\* every r' with r < r' <= 36.
C21_IsDigitMonotonic ==
    \A i, j \in CallIdx :
        (/\ calls[i].op = "is_digit" /\ calls[j].op = "is_digit"
         /\ calls[i].radix < calls[j].radix /\ calls[j].radix <= 36
         /\ calls[i].res = Returned(TRUE))
            => calls[j].res = Returned(TRUE)

\* '5' was found a digit in radix 10 and then in radix 11
C21_Witness ==
    /\ Len(calls) >= 3
    /\ calls[2].op = "is_digit" /\ calls[2].arg = 53 /\ calls[2].radix = 10
    /\ calls[2].res = Returned(TRUE)
    /\ calls[3].op = "is_digit" /\ calls[3].radix = 11
    /\ calls[3].res = Returned(TRUE)

\* C22: is_digit with a radix above 36 panics for every character, the
\* decimal digits included, and never returns; with a radix of at most 36 it
\* never panics.
C22_IsDigitPanics ==
    \A i \in CallIdx :
        calls[i].op = "is_digit"
            => IF calls[i].radix > 36
               THEN calls[i].res = Panic
               ELSE calls[i].res.kind = "Ok"

\* is_digit(37) was called on '1' and panicked
C22_Witness ==
    \E i \in CallIdx :
        /\ calls[i].op = "is_digit"
        /\ calls[i].arg = 49
        /\ calls[i].radix = 37
        /\ calls[i].res = Panic

----------------------------------------------------------------------------
(* The case properties of the Unicode Character Database, which the        *)
(* documentation of is_lowercase and is_uppercase names as their           *)
(* definition, on the scalars up to U+017F and U+2015                      *)

\* Latin Extended-A, U+0100..=U+017F: the letters come in pairs, capital
\* first; the pairs start on even scalars but for U+0139..=U+0148 and
\* U+0179..=U+017E, and U+0138, U+0149, U+017F are small, U+0178 is capital
ExtendedACapital(s) ==
    \/ s \in 256..311 /\ s % 2 = 0
    \/ s \in 313..328 /\ s % 2 = 1
    \/ s \in 330..375 /\ s % 2 = 0
    \/ s = 376
    \/ s \in 377..382 /\ s % 2 = 1

\* DerivedCoreProperties.txt, Uppercase
UnicodeUppercase(s) ==
    \/ s \in 65..90
    \/ s \in 192..214
    \/ s \in 216..222
    \/ ExtendedACapital(s)

\* DerivedCoreProperties.txt, Lowercase
UnicodeLowercase(s) ==
    \/ s \in 97..122
    \/ s \in {170, 181, 186}
    \/ s \in 223..246
    \/ s \in 248..255
    \/ s \in 256..383 /\ ~ExtendedACapital(s)

----------------------------------------------------------------------------
(* Further properties of the predicates, checked under SpecClass           *)

\* C23: for every valid character, is_lowercase is true exactly when the
\* scalar char::from gives for it has the Unicode property Lowercase, and
\* is_uppercase exactly when it has the property Uppercase.
C23_CaseIsUnicodeCase ==
    \A i \in CallIdx :
        calls[i].arg \in ValidBytes
            => /\ calls[i].op = "is_lowercase"
                     => calls[i].res.val = UnicodeLowercase(ScalarOf(calls[i].arg))
               /\ calls[i].op = "is_uppercase"
                     => calls[i].res.val = UnicodeUppercase(ScalarOf(calls[i].arg))

\* C27: is_alphanumeric is is_alphabetic or is_numeric on every character,
\* and is_numeric is true exactly on the bytes 0x30..=0x39.
C27_AlphanumericIsUnion ==
    /\ \A i \in CallIdx :
          calls[i].op = "is_numeric" => calls[i].res.val = (calls[i].arg \in 48..57)
    /\ \A i, j \in CallIdx :
          (calls[i].op = "is_alphanumeric" /\ calls[j].op = "is_alphabetic")
              => calls[i].res.val = (calls[j].res.val \/ calls[i].arg \in 48..57)
    /\ \A i, j \in CallIdx :
          (calls[i].op = "is_alphanumeric" /\ calls[j].op = "is_numeric")
              => (calls[j].res.val => calls[i].res.val)

\* '7' was found numeric, hence alphanumeric
C27_Witness ==
    \E i, j \in CallIdx :
        /\ calls[i].op = "is_numeric" /\ calls[i].arg = 55 /\ calls[i].res.val
        /\ calls[j].op = "is_alphanumeric" /\ calls[j].res.val

----------------------------------------------------------------------------
(* Properties of hexadecimal formatting, checked under SpecHex             *)

IsHex == calls # <<>> /\ FmtCall.op \in {"lower_hex", "upper_hex"}

\* the hexadecimal digit of d, a-f or A-F
HexDigit(d, upper) ==
    IF d < 10 THEN 48 + d ELSE IF upper THEN 55 + d ELSE 87 + d

\* the two hexadecimal digits of the byte b
TwoDigits(b, upper) == <<HexDigit(b \div 16, upper), HexDigit(b % 16, upper)>>

\* the hexadecimal digits of the byte b, without a leading zero
ShortDigits(b, upper) ==
    IF b < 16 THEN <<HexDigit(b, upper)>> ELSE TwoDigits(b, upper)

\* C24, as stated: LowerHex and UpperHex of a character write the two
\* hexadecimal digits of its byte, lowercase and uppercase.
C24_HexTwoDigits ==
    IsHex => FmtCall.res = TwoDigits(FmtCall.arg, FmtCall.op = "upper_hex")

\* C24, amended: LowerHex and UpperHex of a character write what formatting
\* the byte itself writes: its hexadecimal digits, lowercase and uppercase,
\* without a leading zero when no width is asked for (one digit below 0x10),
\* the two digits under "02", and otherwise the short digits behind the
\* zeros or spaces that fill the width; never the digits of the scalar.
C24_HexOfByte ==
    IsHex =>
        LET c == FmtCall
            upper == c.op = "upper_hex"
            short == ShortDigits(c.arg, upper)
        IN  /\ ~c.width.some => c.res = short
            /\ (c.width = Width(2) /\ c.zero) => c.res = TwoDigits(c.arg, upper)
            /\ c.width.some =>
                  \E n \in 0..c.width.val :
                      /\ n = (IF c.width.val > Len(short) THEN c.width.val - Len(short) ELSE 0)
                      /\ c.res = Fill(IF c.zero THEN 48 ELSE 32, n) \o short

\* "{:x}" of the character 0xA1 wrote "a1", not the "104" of U+0104
C24_Witness ==
    /\ IsHex
    /\ FmtCall.op = "lower_hex"
    /\ FmtCall.arg = 161
    /\ ~FmtCall.width.some
    /\ FmtCall.res = <<97, 49>>

----------------------------------------------------------------------------
(* Properties of sub-slicing, checked under SpecView                       *)

\* C25: get and get_mut with the range start..end on a view of n bytes
\* return none when end > n or start > end, and otherwise a view of exactly
\* the bytes start .. end - 1 of the view, in order; every byte returned is a
\* valid character, and the view's own bytes are unchanged.
C25_CheckedSubSlice ==
    (calls # <<>> /\ calls[1].op \in {"get", "get_mut"})
        => LET c == calls[1]
               n == Len(c.arg)
           IN  /\ (c.end > n \/ c.start > c.end) => c.res = NoView
               /\ ~(c.end > n \/ c.start > c.end)
                     => /\ c.res.some
                        /\ Len(c.res.val) = c.end - c.start
                        /\ \A k \in 1..(c.end - c.start) : c.res.val[k] = c.arg[c.start + k]
               /\ \A k \in 1..Len(c.res.val) : c.res.val[k] \in ValidBytes
               /\ c.after = c.arg

\* get(1..3) on the view "AB\xC6" returned the view of its last two bytes
C25_Witness ==
    /\ calls # <<>>
    /\ calls[1].op = "get"
    /\ calls[1].arg = <<65, 66, 198>>
    /\ calls[1].start = 1
    /\ calls[1].end = 3
    /\ calls[1].res = SomeView(<<66, 198>>)
    /\ calls[1].after = <<65, 66, 198>>

----------------------------------------------------------------------------
(* Further properties of the buffer, checked under SpecString              *)

\* C26: from_iso8859_10 on a vector that holds the byte 0x01, such as
\* [0x41, 0x42, 0x01, 0x44], returns an error.
C26_ControlByteRejected ==
    (last.op = "from_iso8859_10" /\ \E i \in 1..Len(last.vec) : last.vec[i] = 1)
        => last.kind = "Err"

----------------------------------------------------------------------------
(* Further properties of the codec, checked under Spec                     *)

\* C28: whenever try_from(s) accepts the scalar s as the character c,
\* char::from(c) is s; hence no two scalars are encoded to the same byte.
C28_EncodeInjective ==
    /\ \A i \in CallIdx :
          (i >= 2 /\ calls[i - 1].op = "try_from_char" /\ calls[i - 1].res.kind = "Ok"
                  /\ calls[i].op = "char_from")
              => calls[i].res = Ok(calls[i - 1].arg)
    /\ \A i \in CallIdx :
          (calls[i].op = "try_from_char" /\ calls[i].res.kind = "Ok")
              => \A s \in ScalarInputs :
                    try_from_char(s) = calls[i].res => s = calls[i].arg

\* C29: every character a constructor returns (try_from(u8), try_from(char)
\* of any scalar, default) holds a byte outside 0x80..=0x9F; so char::from is
\* never called on such a byte, its index byte - 0xA0 into the decode table
\* lies in 0..=95 for every byte from 0xA0 on, and it returns a scalar.
C29_UncheckedPrecondition ==
    /\ \A i \in CallIdx :
          (calls[i].op \in {"try_from_u8", "try_from_char", "default"}
                /\ calls[i].res.kind = "Ok")
              => /\ calls[i].res.val \in Bytes
                 /\ ~(calls[i].res.val \in 128..159)
    /\ \A i \in CallIdx :
          calls[i].op = "char_from"
              => /\ ~(calls[i].arg \in 128..159)
                 /\ calls[i].arg >= 160 => (calls[i].arg - 160) \in 0..95
                 /\ calls[i].res.kind = "Ok"
                 /\ IsChar(calls[i].res.val)

\* U+2015 was encoded to 0xBD and char::from read entry 29 of the table
C29_Witness ==
    /\ Len(calls) >= 2
    /\ calls[1] = Call("try_from_char", 8213, Ok(189))
    /\ calls[2] = Call("char_from", 189, Ok(8213))

\* C30: for every byte b, try_from(b) followed by char::from ends as
\* map_byte_to_char(b) does: with the same scalar, or with the same error;
\* no byte of 0xA0..=0xFF that try_from accepts has the sentinel 0 in the
\* decode table.
C30_UncheckedAgreesWithChecked ==
    /\ \A i \in CallIdx :
          calls[i].op = "try_from_u8"
              => /\ calls[i].res.kind = "Err" => map_byte_to_char(calls[i].arg) = calls[i].res
                 /\ calls[i].res.kind = "Ok" => map_byte_to_char(calls[i].arg).kind = "Ok"
                 /\ (calls[i].res.kind = "Ok" /\ calls[i].arg >= 160)
                       => DECODE_MAP[calls[i].arg - 160 + 1] # 0
    /\ \A i \in CallIdx :
          (i >= 2 /\ calls[i - 1].op = "try_from_u8" /\ calls[i].op = "char_from")
              => calls[i].res = map_byte_to_char(calls[i - 1].arg)
    /\ \A i \in CallIdx :
          calls[i].op = "map_byte_to_char"
              => IF try_from_u8(calls[i].arg).kind = "Ok"
                 THEN char_from(try_from_u8(calls[i].arg).val) = {calls[i].res}
                 ELSE try_from_u8(calls[i].arg) = calls[i].res

\* 0xA0, the first byte of the decode table, went through try_from and
\* char::from and came out as U+00A0, as map_byte_to_char gives it
C30_Witness ==
    /\ Len(calls) >= 2
    /\ calls[1] = Call("try_from_u8", 160, Ok(160))
    /\ calls[2] = Call("char_from", 160, Ok(160))
    /\ map_byte_to_char(160) = Ok(160)

====
